---- MODULE Spec2Model ----
(***************************************************************************)
(* Multi-agent NBA analytics workflow: the LangGraph state graph built by  *)
(* MultiAgentWorkflow (nba-backend/main.py) and by create_workflow         *)
(* (a2a-backend/graph.py), its supervisor, stage, join and synthesize      *)
(* nodes, and the run / invoke_workflow entry points.                      *)
(*                                                                         *)
(* Python values are records [t, s]: t is the Python type, s the text as a *)
(* sequence of string tokens (a str is the concatenation of its tokens).   *)
(***************************************************************************)
EXTENDS Integers, Sequences, FiniteSets, TLC

VARIABLES
    env,              \* process environment: credentials and stage URLs
    supervisor_inst,  \* supervisor.py _supervisor_instance is not None
    routing_history,  \* SupervisorAgent.routing_history
    runs,             \* number of runs started so far
    entry,            \* entry point of the current run
    in_loop,          \* the caller of the current run is inside a running event loop
    pc,               \* position of the current run in the graph
    state,            \* AgentState of the current run
    trace,            \* nodes whose body has executed in the current run, in order
    branches,         \* the two coroutines of the parallel join
    raised,           \* message of the exception travelling out of graph.invoke
    result,           \* record returned to the caller of the current run
    llm_calls,        \* decision-service calls made in the current run
    remote_calls,     \* remote agent requests issued in the current run
    last_route,       \* the route call of the current run and what it returned
    call_log,         \* per stage: the request of the current run and its return
    reply,            \* per stage: what the last request of the stage came back with
    thread_id,        \* thread_id of the current run, "" for one run() drew with uuid4
    checkpoints,      \* InMemorySaver of the workflow: channel values kept per thread_id
    _workflow_instance,    \* main.py global: 0 for None, else the instance
    _supervisor_instance,  \* supervisor.py global: 0 for None, else the instance
    threads,          \* executor threads inside invoke_workflow: position and locals
    heap              \* the instances constructed so far and what each holds

\* The variables the steps of a single run leave alone.
aside == <<reply, thread_id, checkpoints, _workflow_instance,
           _supervisor_instance, threads, heap>>

vars == <<env, supervisor_inst, routing_history, runs, entry, in_loop, pc, state,
          trace, branches, raised, result, llm_calls, remote_calls, last_route,
          call_log, aside>>

----------------------------------------------------------------------------
(* Bounds *)

\* Runs made one after another in a behaviour.
MaxRuns == 2

\* Runs in a behaviour of the specification with fairness.
MaxLiveRuns == 1

----------------------------------------------------------------------------
(* Python values *)

Str(tokens) == [t |-> "str", s |-> tokens]
NoneVal == [t |-> "none", s |-> <<>>]
IntVal == [t |-> "int", s |-> <<"5">>]
ListVal == [t |-> "list", s |-> <<"[item]">>]
EmptyStr == Str(<<>>)

\* bool(v): None and "" are falsy; the non-empty str, the int 5 and the
\* one-element list are truthy.
Truthy(v) == v.t # "none" /\ v.s # <<>>

\* isinstance(v, str)
IsStr(v) == v.t = "str"

\* len(v) raises TypeError for an int.
HasLen(v) == v.t \in {"str", "list"}

\* str.strip() on a token sequence: leading and trailing whitespace tokens go.
Whitespace == {"\n", " "}

RECURSIVE LStrip(_)
LStrip(s) == IF s # <<>> /\ Head(s) \in Whitespace THEN LStrip(Tail(s)) ELSE s

RECURSIVE RStrip(_)
RStrip(s) ==
    IF s # <<>> /\ s[Len(s)] \in Whitespace
    THEN RStrip(SubSeq(s, 1, Len(s) - 1)) ELSE s

Strip(s) == RStrip(LStrip(s))

Contains(s, tok) == \E i \in DOMAIN s : s[i] = tok

----------------------------------------------------------------------------
(* Decision service: the text of a reply is a sequence of tokens, a fence  *)
(* "<fence>", the word "json", a newline, prose, or a JSON document.           *)

\* JSON documents a reply can carry, as json.loads returns them.
DictDoc(hn, na, hr, r) ==
    [kind |-> "dict", has_next |-> hn, next_agent |-> na,
     has_reasoning |-> hr, reasoning |-> r]

Docs ==
    [ d_stats      |-> DictDoc(TRUE, Str(<<"stats_agent">>), TRUE, Str(<<"stat query">>)),
      d_media      |-> DictDoc(TRUE, Str(<<"media_agent">>), TRUE, Str(<<"media query">>)),
      d_both       |-> DictDoc(TRUE, Str(<<"both">>), TRUE, Str(<<"needs both">>)),
      d_synth      |-> DictDoc(TRUE, Str(<<"synthesize">>), FALSE, NoneVal),
      d_numreason  |-> DictDoc(TRUE, Str(<<"media_agent">>), TRUE, IntVal),
      d_invalid    |-> DictDoc(TRUE, Str(<<"invalid">>), TRUE, Str(<<"why">>)),
      d_nullnext   |-> DictDoc(TRUE, NoneVal, TRUE, Str(<<"why">>)),
      d_nonext     |-> DictDoc(FALSE, NoneVal, TRUE, Str(<<"why">>)),
      d_string     |-> [kind |-> "str", has_next |-> TRUE, next_agent |-> NoneVal,
                        has_reasoning |-> FALSE, reasoning |-> NoneVal],
      d_number     |-> [kind |-> "num", has_next |-> FALSE, next_agent |-> NoneVal,
                        has_reasoning |-> FALSE, reasoning |-> NoneVal] ]

DocIds == DOMAIN Docs

\* Index of the first tok in s at or after position from, Len(s)+1 when none.
RECURSIVE IndexFrom(_, _, _)
IndexFrom(s, tok, from) ==
    IF from > Len(s) THEN Len(s) + 1
    ELSE IF s[from] = tok THEN from
    ELSE IndexFrom(s, tok, from + 1)

\* Index of the first "<fence>" directly followed by "json", Len(s)+1 when none.
RECURSIVE JsonFenceFrom(_, _)
JsonFenceFrom(s, from) ==
    IF from >= Len(s) THEN Len(s) + 1
    ELSE IF s[from] = "<fence>" /\ s[from + 1] = "json" THEN from
    ELSE JsonFenceFrom(s, from + 1)

_clean_response(response_text) ==
    LET jf == JsonFenceFrom(response_text, 1)
        f  == IndexFrom(response_text, "<fence>", 1)
        unfenced ==
            IF jf <= Len(response_text)
            THEN Strip(SubSeq(response_text, jf + 2,
                              IndexFrom(response_text, "<fence>", jf + 2) - 1))
            ELSE IF f <= Len(response_text)
            THEN Strip(SubSeq(response_text, f + 1,
                              IndexFrom(response_text, "<fence>", f + 1) - 1))
            ELSE response_text
    IN  IF unfenced # <<>> /\ Head(unfenced) = "json"
        THEN Strip(Tail(unfenced))
        ELSE unfenced

\* json.loads: the text parses iff, whitespace aside, it is one document.
JsonParses(text) == Len(Strip(text)) = 1 /\ Strip(text)[1] \in DocIds

valid_agents == {"stats_agent", "media_agent", "both", "synthesize"}

Raise(exc, msg) == [exc |-> exc, msg |-> msg, decision |-> Docs.d_nonext]

\* Variant: the decision's agent name is not checked against valid_agents.
_parse_routing_decision_Unvalidated(response_text) ==
    LET cleaned == _clean_response(response_text)
    IN  IF ~JsonParses(cleaned)
        THEN Raise("JSONDecodeError", <<"Expecting value: line 1 column 1 (char 0)">>)
        ELSE LET decision == Docs[Strip(cleaned)[1]]
             IN  IF decision.kind = "num"
                 THEN Raise("TypeError", <<"argument of type 'int' is not iterable">>)
                 ELSE IF ~decision.has_next
                 THEN Raise("ValueError", <<"Missing 'next_agent' field in routing decision">>)
                 ELSE IF decision.kind # "dict"
                 THEN Raise("AttributeError",
                            <<"'", decision.kind, "' object has no attribute 'get'">>)
                 ELSE [exc |-> "none", msg |-> <<>>, decision |-> decision]

_parse_routing_decision(response_text) ==
    LET cleaned == _clean_response(response_text)
    IN  IF ~JsonParses(cleaned)
        THEN Raise("JSONDecodeError", <<"Expecting value: line 1 column 1 (char 0)">>)
        ELSE LET decision == Docs[Strip(cleaned)[1]]
             IN  IF decision.kind = "num"
                 THEN Raise("TypeError", <<"argument of type 'int' is not iterable">>)
                 ELSE IF ~decision.has_next
                 THEN Raise("ValueError", <<"Missing 'next_agent' field in routing decision">>)
                 ELSE IF decision.kind # "dict"
                 THEN Raise("AttributeError",
                            <<"'", decision.kind, "' object has no attribute 'get'">>)
                 ELSE IF ~(IsStr(decision.next_agent)
                           /\ Len(decision.next_agent.s) = 1
                           /\ decision.next_agent.s[1] \in valid_agents)
                 THEN Raise("ValueError",
                            <<"Invalid agent: ">> \o decision.next_agent.s
                            \o <<". Must be one of: valid_agents">>)
                 ELSE [exc |-> "none", msg |-> <<>>, decision |-> decision]

\* Outcomes of self.llm.invoke(messages): an exception, a message whose
\* content is not a str, or a message with text content.
LlmRaise(msg) == [kind |-> "raise", msg |-> msg, content |-> <<>>]
LlmNonStr == [kind |-> "nonstr", msg |-> <<>>, content |-> <<>>]
LlmText(content) == [kind |-> "text", msg |-> <<>>, content |-> content]

RouteResult(next_node, reasoning, success) ==
    [next_node |-> next_node, supervisor_reasoning |-> reasoning,
     success |-> success]

Fallback(prefix, msg) ==
    RouteResult("stats_agent",
                Str(<<prefix>> \o msg \o <<". Defaulting to stats_agent.">>),
                FALSE)

\* SupervisorAgent.route: the returned dict.
route(user_message, llm) ==
    IF llm.kind = "raise"
    THEN Fallback("Unexpected error during routing: ", llm.msg)
    ELSE IF llm.kind = "nonstr"
    THEN Fallback("Unexpected error during routing: ",
                  <<"'list' object has no attribute 'strip'">>)
    ELSE LET parsed == _parse_routing_decision(Strip(llm.content))
         IN  IF parsed.exc = "JSONDecodeError"
             THEN Fallback("Error parsing routing decision: ", parsed.msg)
             ELSE IF parsed.exc = "ValueError"
             THEN Fallback("Error in routing decision: ", parsed.msg)
             ELSE IF parsed.exc # "none"
             THEN Fallback("Unexpected error during routing: ", parsed.msg)
             ELSE RouteResult(parsed.decision.next_agent.s[1],
                              IF parsed.decision.has_reasoning
                              THEN parsed.decision.reasoning ELSE EmptyStr,
                              TRUE)

\* The entry route appends to self.routing_history, <<>> when it appends none.
route_history_entry(user_message, llm) ==
    LET r == route(user_message, llm)
    IN  IF r.success
        THEN << [query |-> user_message, decision |-> r.next_node,
                 reasoning |-> r.supervisor_reasoning] >>
        ELSE <<>>

----------------------------------------------------------------------------
(* Remote agent client: the JSON-RPC reply and the text extracted from it  *)

Part(is_dict, kind, has_text, text) ==
    [is_dict |-> is_dict, kind |-> kind, has_text |-> has_text, text |-> text]

TextPart(text) == Part(TRUE, "text", TRUE, text)

\* A value found under a key: absent, a str, a dict (with or without a
\* "text" key), a list of parts, or something else.
Absent == [present |-> FALSE, type |-> "none", str |-> NoneVal,
           has_text |-> FALSE, text |-> NoneVal, parts |-> <<>>]
StrField(v) == [Absent EXCEPT !.present = TRUE, !.type = "str", !.str = v]
DictField(has_text, text) ==
    [Absent EXCEPT !.present = TRUE, !.type = "dict", !.has_text = has_text,
                   !.text = text]
ListField(parts) == [Absent EXCEPT !.present = TRUE, !.type = "list", !.parts = parts]
OtherField == [Absent EXCEPT !.present = TRUE, !.type = "num"]

field_names == <<"response", "content", "data", "text", "message", "output">>
part_keys == <<"parts", "content", "text", "data">>

NoFields == [n \in {field_names[i] : i \in DOMAIN field_names} |-> Absent]
NoKeys == [k \in {part_keys[i] : i \in DOMAIN part_keys} |-> Absent]

Artifact(is_dict, keys) == [is_dict |-> is_dict, keys |-> keys]

\* data["result"]: type is "str", "dict", "list" or "num".
ResultVal(type, str, parts, fields, artifacts) ==
    [type |-> type, str |-> str, parts |-> parts, fields |-> fields,
     artifacts |-> artifacts]

DictResult(parts, fields, artifacts) ==
    ResultVal("dict", NoneVal, parts, fields, artifacts)

\* data: error is "absent", "falsy" (null) or "set".
Envelope(error, has_result, res) ==
    [error |-> error, has_result |-> has_result, result |-> res]

\* First truthy text of a text-kind dict part, NoneVal when there is none
\* (lines 98-104 and 137-142: no check that the text is a str).
RECURSIVE FirstPartText(_)
FirstPartText(parts) ==
    IF parts = <<>> THEN NoneVal
    ELSE LET part == Head(parts)
         IN  IF part.is_dict /\ part.kind = "text" /\ part.has_text
                /\ Truthy(part.text)
             THEN part.text
             ELSE FirstPartText(Tail(parts))

NonBlankStr(v) == IsStr(v) /\ Strip(v.s) # <<>>

\* The alternate-field loop of lines 111-122.
RECURSIVE FirstFieldText(_, _)
FirstFieldText(fields, names) ==
    IF names = <<>> THEN NoneVal
    ELSE LET value == fields[Head(names)]
         IN  IF value.present /\ value.type = "str" /\ NonBlankStr(value.str)
             THEN value.str
             ELSE IF value.present /\ value.type = "dict" /\ value.has_text
                     /\ NonBlankStr(value.text)
             THEN value.text
             ELSE FirstFieldText(fields, Tail(names))

\* One artifact, lines 130-142.
RECURSIVE ArtifactText(_, _)
ArtifactText(artifact, keys) ==
    IF keys = <<>> \/ ~artifact.is_dict THEN NoneVal
    ELSE LET v == artifact.keys[Head(keys)]
             in_list == IF v.present /\ v.type = "list"
                        THEN FirstPartText(v.parts) ELSE NoneVal
         IN  IF v.present /\ v.type = "str" /\ NonBlankStr(v.str)
             THEN v.str
             ELSE IF in_list # NoneVal THEN in_list
             ELSE ArtifactText(artifact, Tail(keys))

RECURSIVE ArtifactsText(_)
ArtifactsText(artifacts) ==
    IF artifacts = <<>> THEN NoneVal
    ELSE LET t == ArtifactText(Head(artifacts), part_keys)
         IN  IF t # NoneVal THEN t ELSE ArtifactsText(Tail(artifacts))

\* Variant: the alternate fields are tried before result.parts.
ExtractText_FieldsFirst(data) ==
    IF data.error = "set" THEN NoneVal
    ELSE IF ~data.has_result THEN NoneVal
    ELSE LET res == data.result
             from_parts == IF res.type = "dict"
                           THEN FirstPartText(res.parts) ELSE NoneVal
             from_fields == IF res.type = "dict"
                            THEN FirstFieldText(res.fields, field_names)
                            ELSE NoneVal
         IN  IF from_fields # NoneVal THEN from_fields
             ELSE IF from_parts # NoneVal THEN from_parts
             ELSE IF res.type = "str" THEN res.str
             ELSE IF res.type = "dict" THEN ArtifactsText(res.artifacts)
             ELSE NoneVal

\* Lines 79-148: what the call returns for a decoded reply, NoneVal for None.
ExtractText(data) ==
    IF data.error = "set" THEN NoneVal
    ELSE IF ~data.has_result THEN NoneVal
    ELSE LET res == data.result
             from_parts == IF res.type = "dict"
                           THEN FirstPartText(res.parts) ELSE NoneVal
             from_fields == IF res.type = "dict"
                            THEN FirstFieldText(res.fields, field_names)
                            ELSE NoneVal
         IN  IF from_parts # NoneVal THEN from_parts
             ELSE IF res.type = "str" THEN res.str
             ELSE IF from_fields # NoneVal THEN from_fields
             ELSE IF res.type = "dict" THEN ArtifactsText(res.artifacts)
             ELSE NoneVal

\* Outcomes of client.post: a transport failure, a body that is not JSON,
\* or a decoded reply.
transport_failures ==
    {"timeout", "connect_timeout", "connect_error", "http_error",
     "request_error", "bad_json"}

Failed(kind) == [kind |-> kind, data |-> Envelope("absent", FALSE,
                                                 DictResult(<<>>, NoFields, <<>>))]
Replied(data) == [kind |-> "ok", data |-> data]

\* call_elastic_agent_a2a: every except clause returns None.
call_elastic_agent_a2a(outcome) ==
    IF outcome.kind # "ok" THEN NoneVal ELSE ExtractText(outcome.data)

----------------------------------------------------------------------------
(* Stage executors (worker_agents.py)                                      *)

\* The canned texts, token by token.
StatsDemoText ==
    Str(<<"## Top NBA Scorers 2024-2025 Season",
          "1. **Shai Gilgeous-Alexander** (Oklahoma City Thunder) - 32.7 PPG",
          "2. **Luka Doncic** (Dallas Mavericks) - 33.9 PPG",
          "3. **LeBron James** (Los Angeles Lakers) - 28.7 PPG">>)

StatsFallbackText ==
    Str(<<"## Top NBA Scorers ", "(Mock Data)",
          "Note: Using mock data - agent did not return text.">>)

MediaDemoText ==
    Str(<<"## Recommended NBA Media", "### Documentaries",
          "- The Last Dance (ESPN)", "- NBA League Pass">>)

MediaFallbackText ==
    Str(<<"## Recommended NBA Media ", "(Mock Data)",
          "Note: Using mock data - agent did not return text.">>)

\* The marker that tells canned text from live text.
HasMockMarker(v) == Contains(v.s, "(Mock Data)")

ErrorText(msg) == Str(<<"Error: ">> \o msg)

LenTypeError == <<"object of type 'int' has no len()">>

\* The dict a stage returns: which keys it has and their values.
Update(has_stats, stats, has_media, media, has_error, error) ==
    [has_stats |-> has_stats, stats_agent_response |-> stats,
     has_media |-> has_media, media_agent_response |-> media,
     has_error |-> has_error, error |-> error,
     next_node |-> "synthesize"]

StatsUpdate(text) == Update(TRUE, text, FALSE, NoneVal, FALSE, NoneVal)
MediaUpdate(text) == Update(FALSE, NoneVal, TRUE, text, FALSE, NoneVal)

\* stats_agent_node: configured is bool(agent_url), outcome the outcome of
\* the one request it makes when configured.
stats_agent_node(configured, outcome) ==
    IF ~configured THEN StatsUpdate(StatsDemoText)
    ELSE LET stats_response == call_elastic_agent_a2a(outcome)
         IN  IF Truthy(stats_response)
             THEN IF HasLen(stats_response)
                  THEN StatsUpdate(stats_response)
                  ELSE Update(TRUE, ErrorText(LenTypeError), FALSE, NoneVal,
                              TRUE, Str(LenTypeError))
             ELSE StatsUpdate(StatsFallbackText)

\* Variant: the fallback path also returns an error key.
media_agent_node_FallbackRecorded(configured, outcome) ==
    IF ~configured THEN MediaUpdate(MediaDemoText)
    ELSE LET media_response == call_elastic_agent_a2a(outcome)
         IN  IF Truthy(media_response)
             THEN IF HasLen(media_response)
                  THEN MediaUpdate(media_response)
                  ELSE Update(FALSE, NoneVal, TRUE, ErrorText(LenTypeError),
                              TRUE, Str(LenTypeError))
             ELSE Update(FALSE, NoneVal, TRUE, MediaFallbackText,
                         TRUE, Str(<<"Media agent call failed">>))

media_agent_node(configured, outcome) ==
    IF ~configured THEN MediaUpdate(MediaDemoText)
    ELSE LET media_response == call_elastic_agent_a2a(outcome)
         IN  IF Truthy(media_response)
             THEN IF HasLen(media_response)
                  THEN MediaUpdate(media_response)
                  ELSE Update(FALSE, NoneVal, TRUE, ErrorText(LenTypeError),
                              TRUE, Str(LenTypeError))
             ELSE MediaUpdate(MediaFallbackText)

\* stats_and_media_node after asyncio.gather has returned both dicts:
\* result.get("stats_agent_response", "") and its media twin, nothing else.
stats_and_media_node(stats_result, media_result) ==
    Update(TRUE,
           IF stats_result.has_stats THEN stats_result.stats_agent_response
           ELSE EmptyStr,
           TRUE,
           IF media_result.has_media THEN media_result.media_agent_response
           ELSE EmptyStr,
           FALSE, NoneVal)

----------------------------------------------------------------------------
(* AgentState (models/state.py) and the nodes of the graph                 *)

\* AgentState(user_message=q) with every other field at its default.
AgentState(q) ==
    [user_message |-> q, messages |-> <<>>, next_node |-> "supervisor",
     supervisor_reasoning |-> EmptyStr, status |-> "initialized",
     progress |-> 0, workflow_step |-> 0, agent_history |-> <<>>,
     current_agent |-> "", stats_agent_response |-> EmptyStr,
     media_agent_response |-> EmptyStr, final_report |-> EmptyStr,
     insights |-> <<>>, success |-> FALSE, error |-> NoneVal]

\* The field types AgentState declares: the engine rebuilds the model from
\* the channel values before every node, which rejects a value of another
\* type (the fields a node of this program can fill with a non-str are the
\* reasoning and the two responses).
AgentStateValid(st) ==
    /\ IsStr(st.supervisor_reasoning)
    /\ IsStr(st.stats_agent_response)
    /\ IsStr(st.media_agent_response)
    /\ IsStr(st.final_report)
    /\ st.error.t \in {"none", "str"}

ValidationError == <<"validation error for AgentState: Input should be a valid string">>

\* for key, value in result.items(): if hasattr(state, key): setattr(...)
ApplyUpdate(st, u) ==
    [st EXCEPT
        !.stats_agent_response =
            IF u.has_stats THEN u.stats_agent_response ELSE @,
        !.media_agent_response =
            IF u.has_media THEN u.media_agent_response ELSE @,
        !.error = IF u.has_error THEN u.error ELSE @,
        !.next_node = u.next_node]

AsyncioRunError == <<"asyncio.run() cannot be called from a running event loop">>

MissingCredentials == <<"Missing Azure OpenAI credentials.">>

\* Variant: the except path leaves state.error and state.status alone.
_stats_agent_node_ErrorDropped(st, loop, u) ==
    IF loop
    THEN [st EXCEPT !.stats_agent_response = ErrorText(AsyncioRunError),
                    !.progress = 50]
    ELSE [ApplyUpdate(st, u) EXCEPT
                    !.status = "stats_agent_complete",
                    !.progress = 60,
                    !.current_agent = "stats_agent",
                    !.agent_history = Append(@, "stats_agent")]

\* MultiAgentWorkflow._stats_agent_node: loop is whether asyncio.run finds a
\* running event loop, u the dict stats_agent_node returns otherwise.
\* Variant: the except path fills both responses, as that of the join does.
_stats_agent_node_BothErrorTexts(st, loop, u) ==
    IF loop
    THEN [st EXCEPT !.error = Str(<<"Stats agent error: ">> \o AsyncioRunError),
                    !.status = "stats_agent_error",
                    !.stats_agent_response = ErrorText(AsyncioRunError),
                    !.media_agent_response = ErrorText(AsyncioRunError),
                    !.progress = 50]
    ELSE [ApplyUpdate(st, u) EXCEPT
                    !.status = "stats_agent_complete",
                    !.progress = 60,
                    !.current_agent = "stats_agent",
                    !.agent_history = Append(@, "stats_agent")]

_stats_agent_node(st, loop, u) ==
    IF loop
    THEN [st EXCEPT !.error = Str(<<"Stats agent error: ">> \o AsyncioRunError),
                    !.status = "stats_agent_error",
                    !.stats_agent_response = ErrorText(AsyncioRunError),
                    !.progress = 50]
    ELSE [ApplyUpdate(st, u) EXCEPT
                    !.status = "stats_agent_complete",
                    !.progress = 60,
                    !.current_agent = "stats_agent",
                    !.agent_history = Append(@, "stats_agent")]

\* Variant: the except path leaves the response of the stage empty.
_media_agent_node_NoErrorText(st, loop, u) ==
    IF loop
    THEN [st EXCEPT !.error = Str(<<"Media agent error: ">> \o AsyncioRunError),
                    !.status = "media_agent_error",
                    !.progress = 50]
    ELSE [ApplyUpdate(st, u) EXCEPT
                    !.status = "media_agent_complete",
                    !.progress = 60,
                    !.current_agent = "media_agent",
                    !.agent_history = Append(@, "media_agent")]

_media_agent_node(st, loop, u) ==
    IF loop
    THEN [st EXCEPT !.error = Str(<<"Media agent error: ">> \o AsyncioRunError),
                    !.status = "media_agent_error",
                    !.media_agent_response = ErrorText(AsyncioRunError),
                    !.progress = 50]
    ELSE [ApplyUpdate(st, u) EXCEPT
                    !.status = "media_agent_complete",
                    !.progress = 60,
                    !.current_agent = "media_agent",
                    !.agent_history = Append(@, "media_agent")]

\* Variant: the join reports by setting status back to its first value.
_both_agents_node_StatusReset(st, loop, u) ==
    IF loop
    THEN [st EXCEPT !.error = Str(<<"Parallel agents error: ">> \o AsyncioRunError),
                    !.status = "both_agents_error",
                    !.stats_agent_response = ErrorText(AsyncioRunError),
                    !.media_agent_response = ErrorText(AsyncioRunError),
                    !.progress = 50]
    ELSE [ApplyUpdate(st, u) EXCEPT
                    !.status = "initialized",
                    !.progress = 70,
                    !.current_agent = "both_agents",
                    !.agent_history = @ \o <<"stats_agent", "media_agent">>]

_both_agents_node(st, loop, u) ==
    IF loop
    THEN [st EXCEPT !.error = Str(<<"Parallel agents error: ">> \o AsyncioRunError),
                    !.status = "both_agents_error",
                    !.stats_agent_response = ErrorText(AsyncioRunError),
                    !.media_agent_response = ErrorText(AsyncioRunError),
                    !.progress = 50]
    ELSE [ApplyUpdate(st, u) EXCEPT
                    !.status = "both_agents_complete",
                    !.progress = 70,
                    !.current_agent = "both_agents",
                    !.agent_history = @ \o <<"stats_agent", "media_agent">>]

\* Variant: a decision route reports as failed is recorded as an error.
supervisor_node_FallbackIsError(st, have_supervisor, llm) ==
    IF ~have_supervisor
    THEN [st EXCEPT !.next_node = "synthesize",
                    !.error = Str(<<"Supervisor error: ">> \o MissingCredentials),
                    !.status = "supervisor_error",
                    !.progress = 0]
    ELSE IF st.user_message = ""
    THEN [st EXCEPT !.next_node = "synthesize",
                    !.supervisor_reasoning = Str(<<"No user message provided">>),
                    !.status = "supervisor_complete",
                    !.progress = 25]
    ELSE LET r == route(st.user_message, llm)
         IN  [st EXCEPT !.next_node = r.next_node,
                        !.supervisor_reasoning = r.supervisor_reasoning,
                        !.error = IF r.success THEN @ ELSE r.supervisor_reasoning,
                        !.status = "supervisor_complete",
                        !.progress = 25]

\* Variant: the except path also writes the error into final_report.
supervisor_node_ReportsError(st, have_supervisor, llm) ==
    IF ~have_supervisor
    THEN [st EXCEPT !.next_node = "synthesize",
                    !.error = Str(<<"Supervisor error: ">> \o MissingCredentials),
                    !.final_report = Str(<<"Supervisor error: ">> \o MissingCredentials),
                    !.status = "supervisor_error",
                    !.progress = 0]
    ELSE IF st.user_message = ""
    THEN [st EXCEPT !.next_node = "synthesize",
                    !.supervisor_reasoning = Str(<<"No user message provided">>),
                    !.status = "supervisor_complete",
                    !.progress = 25]
    ELSE LET r == route(st.user_message, llm)
         IN  [st EXCEPT !.next_node = r.next_node,
                        !.supervisor_reasoning = r.supervisor_reasoning,
                        !.status = "supervisor_complete",
                        !.progress = 25]

\* supervisor_node (nba-backend/supervisor_node.py): have_supervisor is
\* whether get_supervisor() returns an instance (it raises ValueError when
\* it has to build one and the credentials are missing).
supervisor_node(st, have_supervisor, llm) ==
    IF ~have_supervisor
    THEN [st EXCEPT !.next_node = "synthesize",
                    !.error = Str(<<"Supervisor error: ">> \o MissingCredentials),
                    !.status = "supervisor_error",
                    !.progress = 0]
    ELSE IF st.user_message = ""
    THEN [st EXCEPT !.next_node = "synthesize",
                    !.supervisor_reasoning = Str(<<"No user message provided">>),
                    !.status = "supervisor_complete",
                    !.progress = 25]
    ELSE LET r == route(st.user_message, llm)
         IN  [st EXCEPT !.next_node = r.next_node,
                        !.supervisor_reasoning = r.supervisor_reasoning,
                        !.status = "supervisor_complete",
                        !.progress = 25]

\* supervisor (a2a-backend/supervisor.py): the dict-returning node function;
\* its update is merged into the state by the engine.  With no query it
\* returns before get_supervisor(); otherwise a missing supervisor raises.
supervisor(st, llm) ==
    IF st.user_message = ""
    THEN [st EXCEPT !.next_node = "synthesize",
                    !.supervisor_reasoning = Str(<<"No user message provided">>)]
    ELSE LET r == route(st.user_message, llm)
         IN  [st EXCEPT !.next_node = r.next_node,
                        !.supervisor_reasoning = r.supervisor_reasoning]

\* ' -> '.join(state.agent_history) or 'None'
RECURSIVE JoinArrow(_)
JoinArrow(h) ==
    IF h = <<>> THEN <<>>
    ELSE IF Len(h) = 1 THEN h
    ELSE <<Head(h), " -> ">> \o JoinArrow(Tail(h))

RECURSIVE InsightLines(_)
InsightLines(ins) ==
    IF ins = <<>> THEN <<>> ELSE <<"- ", Head(ins)>> \o InsightLines(Tail(ins))

\* "\n".join(report_parts) raises TypeError when a part is not a str.
JoinTypeError == <<"sequence item: expected str instance">>

\* Variant: the normal path clears state.error once it is in the report.
synthesize_node_ErrorCleared(st) ==
    LET status == IF ~Truthy(st.error) THEN "completed" ELSE "error"
        report_parts ==
            <<"# Multi-Agent NBA Analytics Report", "## Query", st.user_message,
              "## Workflow Summary", "- **Agents Used**: ">>
            \o (IF st.agent_history = <<>> THEN <<"None">>
                ELSE JoinArrow(st.agent_history))
            \o <<"- **Status**: ", status, "- **Progress**: ", ToString(100), "%">>
            \o (IF Truthy(st.error) THEN <<"## Error">> \o st.error.s ELSE <<>>)
            \o (IF Truthy(st.stats_agent_response)
                THEN <<"## NBA Statistics">> \o st.stats_agent_response.s
                ELSE <<>>)
            \o (IF Truthy(st.media_agent_response)
                THEN <<"## Media Recommendations">> \o st.media_agent_response.s
                ELSE <<>>)
            \o (IF st.insights # <<>>
                THEN <<"## Key Insights">> \o InsightLines(st.insights)
                ELSE <<>>)
        join_raises ==
            \/ Truthy(st.stats_agent_response) /\ ~IsStr(st.stats_agent_response)
            \/ Truthy(st.media_agent_response) /\ ~IsStr(st.media_agent_response)
    IN  IF join_raises
        THEN [st EXCEPT !.error = Str(<<"Synthesis error: ">> \o JoinTypeError),
                        !.status = "synthesis_error",
                        !.success = FALSE,
                        !.progress = 100,
                        !.final_report =
                            Str(<<"# Error During Synthesis">> \o JoinTypeError
                                \o <<"**Query**: ", st.user_message>>)]
        ELSE [st EXCEPT !.progress = 100,
                        !.status = status,
                        !.success = ~Truthy(st.error),
                        !.final_report = Str(report_parts),
                        !.error = NoneVal,
                        !.messages = Append(@, "ai")]

\* Variant: the report is built before status is updated.
synthesize_node_StaleStatus(st) ==
    LET status == IF ~Truthy(st.error) THEN "completed" ELSE "error"
        report_parts ==
            <<"# Multi-Agent NBA Analytics Report", "## Query", st.user_message,
              "## Workflow Summary", "- **Agents Used**: ">>
            \o (IF st.agent_history = <<>> THEN <<"None">>
                ELSE JoinArrow(st.agent_history))
            \o <<"- **Status**: ", st.status, "- **Progress**: ", ToString(100), "%">>
            \o (IF Truthy(st.error) THEN <<"## Error">> \o st.error.s ELSE <<>>)
            \o (IF Truthy(st.stats_agent_response)
                THEN <<"## NBA Statistics">> \o st.stats_agent_response.s
                ELSE <<>>)
            \o (IF Truthy(st.media_agent_response)
                THEN <<"## Media Recommendations">> \o st.media_agent_response.s
                ELSE <<>>)
            \o (IF st.insights # <<>>
                THEN <<"## Key Insights">> \o InsightLines(st.insights)
                ELSE <<>>)
        join_raises ==
            \/ Truthy(st.stats_agent_response) /\ ~IsStr(st.stats_agent_response)
            \/ Truthy(st.media_agent_response) /\ ~IsStr(st.media_agent_response)
    IN  IF join_raises
        THEN [st EXCEPT !.error = Str(<<"Synthesis error: ">> \o JoinTypeError),
                        !.status = "synthesis_error",
                        !.success = FALSE,
                        !.progress = 100,
                        !.final_report =
                            Str(<<"# Error During Synthesis">> \o JoinTypeError
                                \o <<"**Query**: ", st.user_message>>)]
        ELSE [st EXCEPT !.progress = 100,
                        !.status = status,
                        !.success = ~Truthy(st.error),
                        !.final_report = Str(report_parts),
                        !.messages = Append(@, "ai")]

\* synthesize_node (nba-backend/synthesizer.py)
synthesize_node(st) ==
    LET status == IF ~Truthy(st.error) THEN "completed" ELSE "error"
        report_parts ==
            <<"# Multi-Agent NBA Analytics Report", "## Query", st.user_message,
              "## Workflow Summary", "- **Agents Used**: ">>
            \o (IF st.agent_history = <<>> THEN <<"None">>
                ELSE JoinArrow(st.agent_history))
            \o <<"- **Status**: ", status, "- **Progress**: ", ToString(100), "%">>
            \o (IF Truthy(st.error) THEN <<"## Error">> \o st.error.s ELSE <<>>)
            \o (IF Truthy(st.stats_agent_response)
                THEN <<"## NBA Statistics">> \o st.stats_agent_response.s
                ELSE <<>>)
            \o (IF Truthy(st.media_agent_response)
                THEN <<"## Media Recommendations">> \o st.media_agent_response.s
                ELSE <<>>)
            \o (IF st.insights # <<>>
                THEN <<"## Key Insights">> \o InsightLines(st.insights)
                ELSE <<>>)
        join_raises ==
            \/ Truthy(st.stats_agent_response) /\ ~IsStr(st.stats_agent_response)
            \/ Truthy(st.media_agent_response) /\ ~IsStr(st.media_agent_response)
    IN  IF join_raises
        THEN [st EXCEPT !.error = Str(<<"Synthesis error: ">> \o JoinTypeError),
                        !.status = "synthesis_error",
                        !.success = FALSE,
                        !.progress = 100,
                        !.final_report =
                            Str(<<"# Error During Synthesis">> \o JoinTypeError
                                \o <<"**Query**: ", st.user_message>>)]
        ELSE [st EXCEPT !.progress = 100,
                        !.status = status,
                        !.success = ~Truthy(st.error),
                        !.final_report = Str(report_parts),
                        !.messages = Append(@, "ai")]

----------------------------------------------------------------------------
(* The two graphs and the entry points                                     *)

\* The path maps of add_conditional_edges: main.py:101-106, graph.py:70-75.
dispatch_map_main ==
    [stats_agent |-> "stats_agent", media_agent |-> "media_agent",
     both |-> "both_agents", synthesize |-> "synthesize"]

dispatch_map_a2a ==
    [stats_agent |-> "stats_agent", media_agent |-> "media_agent",
     both_agents |-> "both_agents", synthesize |-> "synthesize"]

\* main.py route_supervisor
route_supervisor(st) == st.next_node

\* graph.py route_based_decision: state.get("next_node", "stats_agent"); the
\* field is always present in an AgentState.
route_based_decision(st) == st.next_node

Entries == {"run", "invoke_workflow", "create_workflow"}

IsMain(e) == e \in {"run", "invoke_workflow"}

DispatchMap(e) == IF IsMain(e) THEN dispatch_map_main ELSE dispatch_map_a2a

RouterKey(e, st) ==
    IF IsMain(e) THEN route_supervisor(st) ELSE route_based_decision(st)

KeyError(key) == <<"KeyError: ", key>>

\* The record a run hands back; returned is FALSE while there is none.
NoResult ==
    [returned |-> FALSE, success |-> FALSE, status |-> "", progress |-> 0,
     final_report |-> EmptyStr, has_agents_used |-> FALSE,
     agents_used |-> <<>>, error |-> NoneVal]

\* Variant: a run whose graph finished reports success.
run_result_Succeeded(st) ==
    [returned |-> TRUE, success |-> TRUE, status |-> st.status,
     progress |-> IF st.status = "completed" THEN 100 ELSE st.progress,
     final_report |-> st.final_report, has_agents_used |-> TRUE,
     agents_used |-> st.agent_history, error |-> st.error]

\* MultiAgentWorkflow.run, lines 267-302: the record built from the final
\* channel values.
run_result(st) ==
    [returned |-> TRUE, success |-> st.success, status |-> st.status,
     progress |-> IF st.status = "completed" THEN 100 ELSE st.progress,
     final_report |-> st.final_report, has_agents_used |-> TRUE,
     agents_used |-> st.agent_history, error |-> st.error]

\* Variant: the except path reports its own status word.
error_result_OwnStatus(msg) ==
    [returned |-> TRUE, success |-> FALSE, status |-> "workflow_error",
     progress |-> 0,
     final_report |-> Str(<<"# Workflow Execution Failed">> \o msg),
     has_agents_used |-> FALSE, agents_used |-> <<>>, error |-> Str(msg)]

\* MultiAgentWorkflow.run, lines 305-327: error_result has no agents_used.
error_result(msg) ==
    [returned |-> TRUE, success |-> FALSE, status |-> "error", progress |-> 0,
     final_report |-> Str(<<"# Workflow Execution Failed">> \o msg),
     has_agents_used |-> FALSE, agents_used |-> <<>>, error |-> Str(msg)]

----------------------------------------------------------------------------
(* Inputs *)

Queries == {"", "Who leads the league in scoring?"}

\* Ways a reply wraps a document d.
Wrappings(d) ==
    { <<d>>,
      <<"\n", d, "\n">>,
      <<"<fence>", "json", "\n", d, "\n", "<fence>">>,
      <<"<fence>", "\n", d, "\n", "<fence>">>,
      <<"prose", "<fence>", "json", d, "<fence>", "prose">>,
      <<"json", "\n", d>>,
      <<"prose", d>>,
      <<"<fence>", "json", "<fence>", d>> }

ReplyTexts ==
    UNION { Wrappings(d) : d \in DocIds }
    \cup { <<>>, <<"prose">>, <<"<fence>", "<fence>">>, <<"json">> }

LlmOutcomes ==
    { LlmRaise(<<"Request timed out.">>), LlmNonStr }
    \cup { LlmText(t) : t \in ReplyTexts }

LiveText == Str(<<"live agent text">>)
BlankText == Str(<<" ", "\n">>)
OtherText == Str(<<"other agent text">>)

Envelopes ==
    { Envelope("absent", TRUE, DictResult(<<TextPart(LiveText)>>, NoFields, <<>>)),
      Envelope("falsy", TRUE,
               DictResult(<<Part(TRUE, "data", TRUE, LiveText), TextPart(EmptyStr),
                            TextPart(IntVal)>>, NoFields, <<>>)),
      Envelope("absent", TRUE, DictResult(<<TextPart(ListVal)>>, NoFields, <<>>)),
      Envelope("absent", TRUE, ResultVal("str", LiveText, <<>>, NoFields, <<>>)),
      Envelope("absent", TRUE, ResultVal("str", EmptyStr, <<>>, NoFields, <<>>)),
      Envelope("absent", TRUE, ResultVal("num", NoneVal, <<>>, NoFields, <<>>)),
      Envelope("absent", TRUE, ResultVal("list", NoneVal, <<>>, NoFields, <<>>)),
      Envelope("set", TRUE, DictResult(<<TextPart(LiveText)>>, NoFields, <<>>)),
      Envelope("absent", FALSE, DictResult(<<>>, NoFields, <<>>)),
      Envelope("absent", TRUE,
               DictResult(<<Part(FALSE, "text", FALSE, NoneVal)>>,
                          [NoFields EXCEPT !["response"] = StrField(BlankText),
                                           !["content"] = OtherField,
                                           !["message"] = DictField(TRUE, LiveText)],
                          <<>>)),
      Envelope("absent", TRUE,
               DictResult(<<>>, [NoFields EXCEPT !["data"] = DictField(FALSE, NoneVal)],
                          << Artifact(FALSE, NoKeys),
                             Artifact(TRUE, [NoKeys EXCEPT
                                 !["parts"] = ListField(<<TextPart(LiveText)>>)]) >>)),
      Envelope("absent", TRUE,
               DictResult(<<>>, NoFields,
                          << Artifact(TRUE, [NoKeys EXCEPT
                                 !["content"] = StrField(BlankText),
                                 !["text"] = StrField(LiveText)]) >>)),
      Envelope("absent", TRUE,
               DictResult(<<>>, NoFields,
                          << Artifact(TRUE, [NoKeys EXCEPT
                                 !["data"] = ListField(<<TextPart(IntVal)>>)]) >>)),
      Envelope("absent", TRUE,
               DictResult(<<TextPart(LiveText)>>,
                          [NoFields EXCEPT !["output"] = StrField(OtherText)],
                          << Artifact(TRUE, [NoKeys EXCEPT
                                 !["text"] = StrField(BlankText)]) >>)),
      Envelope("absent", TRUE,
               DictResult(<<>>,
                          [NoFields EXCEPT !["data"] = StrField(OtherText),
                                           !["text"] = StrField(LiveText)],
                          << Artifact(TRUE, [NoKeys EXCEPT
                                 !["parts"] = ListField(<<TextPart(LiveText)>>)]) >>)),
      Envelope("absent", TRUE, DictResult(<<>>, NoFields, <<>>)) }

RemoteOutcomes ==
    { Failed(k) : k \in transport_failures } \cup { Replied(e) : e \in Envelopes }

Stages == {"stats", "media"}

IdleBranch == [st |-> "idle", update |-> StatsUpdate(EmptyStr)]

\* The decision service failed to deliver a usable decision: the call
\* raised or gave no text, the cleaned text is not JSON, the document has
\* no next_agent, or next_agent is not one of the four targets.
DecisionFailure(llm) ==
    \/ llm.kind # "text"
    \/ LET cleaned == _clean_response(Strip(llm.content))
       IN  \/ ~JsonParses(cleaned)
           \/ LET doc == Docs[Strip(cleaned)[1]]
              IN  \/ doc.kind # "dict"
                  \/ ~doc.has_next
                  \/ ~IsStr(doc.next_agent)
                  \/ doc.next_agent.s \notin {<<a>> : a \in valid_agents}

NoRoute == [called |-> FALSE, failure |-> FALSE,
            returned |-> RouteResult("", EmptyStr, FALSE)]

NoCall == [made |-> FALSE, returned |-> NoneVal]

\* No request of the stage has come back.
NoReply == Failed("none")

\* The saver holds nothing for a thread_id.
NoCheckpoint == [saved |-> FALSE, values |-> AgentState("")]

\* thread_id values a caller passes to run; "" is thread_id=None, for which
\* run draws a uuid4 that no other run has.
ThreadIds == {"t1"}

\* Executor threads in invoke_workflow at the same time.
MaxThreads == 2

Threads == 1 .. MaxThreads

IdleThread == [pc |-> "idle", workflow |-> 0, supervisor |-> 0, appended |-> FALSE]

\* Instance n of either class exists when n is at most the number made.
EmptyHeap ==
    [workflows |-> 0, supervisors |-> 0,
     saver |-> [n \in 1 .. MaxThreads |-> {}],
     routing_history |-> [n \in 1 .. MaxThreads |-> <<>>]]

AsideInit ==
    /\ reply = [b \in Stages |-> NoReply]
    /\ thread_id = ""
    /\ checkpoints = [t \in ThreadIds |-> NoCheckpoint]
    /\ _workflow_instance = 0
    /\ _supervisor_instance = 0
    /\ threads = [t \in Threads |-> IdleThread]
    /\ heap = EmptyHeap

----------------------------------------------------------------------------
(* State machine *)

Init ==
    /\ env \in [creds : BOOLEAN, stats_url : BOOLEAN, media_url : BOOLEAN]
    /\ AsideInit
    /\ supervisor_inst = FALSE
    /\ routing_history = <<>>
    /\ runs = 0
    /\ entry = "run"
    /\ in_loop = FALSE
    /\ pc = "idle"
    /\ state = AgentState("")
    /\ trace = <<>>
    /\ branches = [b \in Stages |-> IdleBranch]
    /\ raised = <<>>
    /\ result = NoResult
    /\ llm_calls = 0
    /\ remote_calls = 0
    /\ last_route = NoRoute
    /\ call_log = [b \in Stages |-> NoCall]

\* run(query) / invoke_workflow(query) up to the START -> supervisor edge
\* (main.py:246-265), or graph.invoke on the graph of create_workflow.
\* run is also called from inside a running event loop
\* (deepagent_integration.py:281); invoke_workflow runs in executor threads.
StartRun(q, e, loop) ==
    /\ pc \in {"idle", "returned", "raised"}
    /\ runs < MaxRuns
    /\ loop => e = "run"
    /\ runs' = runs + 1
    /\ entry' = e
    /\ in_loop' = loop
    /\ state' = IF IsMain(e)
                THEN [AgentState(q) EXCEPT !.messages = <<"human">>,
                                           !.status = "initialized",
                                           !.progress = 10]
                ELSE AgentState(q)
    /\ pc' = "supervisor"
    /\ trace' = <<>>
    /\ branches' = [b \in Stages |-> IdleBranch]
    /\ raised' = <<>>
    /\ result' = NoResult
    /\ llm_calls' = 0
    /\ remote_calls' = 0
    /\ last_route' = NoRoute
    /\ call_log' = [b \in Stages |-> NoCall]
    /\ UNCHANGED <<aside, env, supervisor_inst, routing_history>>

\* Variant: run has no except clause.
AbortTo_Uncaught(e) == "raised"

\* An exception leaves graph.invoke: run catches it (main.py:305), the
\* caller of the create_workflow graph gets it.
AbortTo(e) == IF IsMain(e) THEN "run_except" ELSE "raised"

NodePcs ==
    {"supervisor", "dispatch", "stats_agent", "media_agent", "both_agents",
     "synthesize"}

\* The engine cannot build the AgentState a node is to receive.
ValidationAbort ==
    /\ pc \in NodePcs
    /\ ~AgentStateValid(state)
    /\ raised' = ValidationError
    /\ pc' = AbortTo(entry)
    /\ UNCHANGED <<aside, env, supervisor_inst, routing_history, runs, entry, in_loop,
                   state, trace, branches, result, llm_calls, remote_calls, last_route, call_log>>

\* The supervisor node: supervisor_node in the main graph.  graph.py imports
\* its supervisor node from a module supervisor_node of a2a-backend that the
\* sources do not hold; the node function supervisor of
\* a2a-backend/supervisor.py stands for it in the create_workflow graph.
SupervisorStep ==
    /\ pc = "supervisor"
    /\ AgentStateValid(state)
    /\ \E llm \in LlmOutcomes :
        LET have == supervisor_inst \/ env.creds
            main == IsMain(entry)
            gets_supervisor == main \/ state.user_message # ""
            calls_route == have /\ state.user_message # ""
            escapes == ~main /\ gets_supervisor /\ ~have
        IN  /\ state' = IF main THEN supervisor_node(state, have, llm)
                        ELSE IF escapes THEN state
                        ELSE supervisor(state, llm)
            /\ supervisor_inst' = IF gets_supervisor THEN have ELSE supervisor_inst
            /\ routing_history' =
                   IF calls_route
                   THEN routing_history \o route_history_entry(state.user_message, llm)
                   ELSE routing_history
            /\ llm_calls' = IF calls_route THEN llm_calls + 1 ELSE llm_calls
            /\ raised' = IF escapes THEN MissingCredentials ELSE raised
            /\ pc' = IF escapes THEN AbortTo(entry) ELSE "dispatch"
            /\ last_route' =
                   IF calls_route
                   THEN [called |-> TRUE, failure |-> DecisionFailure(llm),
                         returned |-> route(state.user_message, llm)]
                   ELSE last_route
    /\ trace' = Append(trace, "supervisor")
    /\ UNCHANGED <<aside, env, runs, entry, in_loop, branches, result, remote_calls, call_log>>

\* The conditional edge after the supervisor.
Dispatch ==
    /\ pc = "dispatch"
    /\ AgentStateValid(state)
    /\ LET key == RouterKey(entry, state)
           map == DispatchMap(entry)
       IN  /\ pc' = IF key \in DOMAIN map THEN map[key] ELSE AbortTo(entry)
           /\ raised' = IF key \in DOMAIN map THEN raised ELSE KeyError(key)
    /\ UNCHANGED <<aside, env, supervisor_inst, routing_history, runs, entry, in_loop,
                   state, trace, branches, result, llm_calls, remote_calls, last_route, call_log>>

Configured(b) == IF b = "stats" THEN env.stats_url ELSE env.media_url

StageNode(b, configured, outcome) ==
    IF b = "stats" THEN stats_agent_node(configured, outcome)
    ELSE media_agent_node(configured, outcome)

\* The stats node: _stats_agent_node in the main graph, the lambda of
\* graph.py:44-46 in the create_workflow graph.
StatsStep ==
    /\ pc = "stats_agent"
    /\ AgentStateValid(state)
    /\ \E outcome \in RemoteOutcomes :
        LET u == stats_agent_node(env.stats_url, outcome)
        IN  /\ state' = IF IsMain(entry) THEN _stats_agent_node(state, in_loop, u)
                        ELSE ApplyUpdate(state, u)
            /\ call_log' =
                   IF ~in_loop /\ env.stats_url
                   THEN [call_log EXCEPT !["stats"] =
                            [made |-> TRUE,
                             returned |-> call_elastic_agent_a2a(outcome)]]
                   ELSE call_log
    /\ remote_calls' = IF ~in_loop /\ env.stats_url THEN remote_calls + 1
                       ELSE remote_calls
    /\ trace' = Append(trace, "stats_agent")
    /\ pc' = "synthesize"
    /\ UNCHANGED <<aside, env, supervisor_inst, routing_history, runs, entry, in_loop,
                   branches, raised, result, llm_calls, last_route>>

\* Variant: the media stage repeats a request that returned no text.
MediaStep_Retried ==
    /\ pc = "media_agent"
    /\ AgentStateValid(state)
    /\ \E outcome \in RemoteOutcomes :
        LET u == media_agent_node(env.media_url, outcome)
        IN  /\ state' = IF IsMain(entry) THEN _media_agent_node(state, in_loop, u)
                        ELSE ApplyUpdate(state, u)
            /\ call_log' =
                   IF ~in_loop /\ env.media_url
                   THEN [call_log EXCEPT !["media"] =
                            [made |-> TRUE,
                             returned |-> call_elastic_agent_a2a(outcome)]]
                   ELSE call_log
            /\ remote_calls' =
                   IF ~in_loop /\ env.media_url
                   THEN IF call_elastic_agent_a2a(outcome) = NoneVal
                        THEN remote_calls + 2 ELSE remote_calls + 1
                   ELSE remote_calls
    /\ trace' = Append(trace, "media_agent")
    /\ pc' = "synthesize"
    /\ UNCHANGED <<aside, env, supervisor_inst, routing_history, runs, entry, in_loop,
                   branches, raised, result, llm_calls, last_route>>

MediaStep ==
    /\ pc = "media_agent"
    /\ AgentStateValid(state)
    /\ \E outcome \in RemoteOutcomes :
        LET u == media_agent_node(env.media_url, outcome)
        IN  /\ state' = IF IsMain(entry) THEN _media_agent_node(state, in_loop, u)
                        ELSE ApplyUpdate(state, u)
            /\ call_log' =
                   IF ~in_loop /\ env.media_url
                   THEN [call_log EXCEPT !["media"] =
                            [made |-> TRUE,
                             returned |-> call_elastic_agent_a2a(outcome)]]
                   ELSE call_log
    /\ remote_calls' = IF ~in_loop /\ env.media_url THEN remote_calls + 1
                       ELSE remote_calls
    /\ trace' = Append(trace, "media_agent")
    /\ pc' = "synthesize"
    /\ UNCHANGED <<aside, env, supervisor_inst, routing_history, runs, entry, in_loop,
                   branches, raised, result, llm_calls, last_route>>

\* _both_agents_node up to asyncio.run: inside a running loop it raises and
\* the except clause runs; otherwise stats_and_media_node creates the two
\* coroutines and awaits asyncio.gather.
BothBegin ==
    /\ pc = "both_agents"
    /\ AgentStateValid(state)
    /\ state' = IF in_loop
                THEN _both_agents_node(state, TRUE, StatsUpdate(EmptyStr))
                ELSE state
    /\ pc' = IF in_loop THEN "synthesize" ELSE "both_running"
    /\ branches' = IF in_loop THEN branches
                   ELSE [b \in Stages |-> [IdleBranch EXCEPT !.st = "pending"]]
    /\ trace' = Append(trace, "both_agents")
    /\ UNCHANGED <<aside, env, supervisor_inst, routing_history, runs, entry, in_loop,
                   raised, result, llm_calls, remote_calls, last_route, call_log>>

\* A branch runs to its first await: with no URL it returns its canned
\* text at once, otherwise it issues its request.
BranchBegin(b) ==
    /\ pc = "both_running"
    /\ branches[b].st = "pending"
    /\ branches' =
           IF Configured(b)
           THEN [branches EXCEPT ![b].st = "awaiting"]
           ELSE [branches EXCEPT ![b] =
                    [st |-> "done",
                     update |-> StageNode(b, FALSE, Failed("timeout"))]]
    /\ remote_calls' = IF Configured(b) THEN remote_calls + 1 ELSE remote_calls
    /\ call_log' = IF Configured(b) THEN [call_log EXCEPT ![b].made = TRUE]
                   ELSE call_log
    /\ UNCHANGED <<aside, env, supervisor_inst, routing_history, runs, entry, in_loop,
                   pc, state, trace, raised, result, llm_calls, last_route>>

\* The request of a branch completes and the branch returns its dict.
BranchReturn(b) ==
    /\ pc = "both_running"
    /\ branches[b].st = "awaiting"
    /\ \E outcome \in RemoteOutcomes :
        /\ branches' = [branches EXCEPT ![b] =
                           [st |-> "done", update |-> StageNode(b, TRUE, outcome)]]
        /\ call_log' = [call_log EXCEPT ![b].returned =
                                           call_elastic_agent_a2a(outcome)]
    /\ UNCHANGED <<aside, env, supervisor_inst, routing_history, runs, entry, in_loop,
                   pc, state, trace, raised, result, llm_calls, remote_calls, last_route>>

\* Variant: the join returns as soon as one branch is done.
JoinFinish_FirstDone ==
    /\ pc = "both_running"
    /\ \E b \in Stages : branches[b].st = "done"
    /\ LET u == stats_and_media_node(branches["stats"].update,
                                     branches["media"].update)
       IN  state' = IF IsMain(entry) THEN _both_agents_node(state, FALSE, u)
                    ELSE ApplyUpdate(state, u)
    /\ branches' = [b \in Stages |-> IdleBranch]
    /\ pc' = "synthesize"
    /\ UNCHANGED <<aside, env, supervisor_inst, routing_history, runs, entry, in_loop,
                   trace, raised, result, llm_calls, remote_calls, last_route, call_log>>

\* asyncio.gather returns, stats_and_media_node builds its dict and the
\* node merges it into the state.
JoinFinish ==
    /\ pc = "both_running"
    /\ \A b \in Stages : branches[b].st = "done"
    /\ LET u == stats_and_media_node(branches["stats"].update,
                                     branches["media"].update)
       IN  state' = IF IsMain(entry) THEN _both_agents_node(state, FALSE, u)
                    ELSE ApplyUpdate(state, u)
    /\ branches' = [b \in Stages |-> IdleBranch]
    /\ pc' = "synthesize"
    /\ UNCHANGED <<aside, env, supervisor_inst, routing_history, runs, entry, in_loop,
                   trace, raised, result, llm_calls, remote_calls, last_route, call_log>>

SynthesizeStep ==
    /\ pc = "synthesize"
    /\ AgentStateValid(state)
    /\ state' = synthesize_node(state)
    /\ trace' = Append(trace, "synthesize")
    /\ pc' = "END"
    /\ UNCHANGED <<aside, env, supervisor_inst, routing_history, runs, entry, in_loop,
                   branches, raised, result, llm_calls, remote_calls, last_route, call_log>>

\* graph.invoke returns; run builds its record (invoke_workflow passes it
\* on), the create_workflow graph hands out the channel values.
RunReturn ==
    /\ pc = "END"
    /\ result' = IF IsMain(entry) THEN run_result(state)
                 ELSE [run_result(state) EXCEPT !.progress = state.progress]
    /\ pc' = "returned"
    /\ UNCHANGED <<aside, env, supervisor_inst, routing_history, runs, entry, in_loop,
                   state, trace, branches, raised, llm_calls, remote_calls, last_route, call_log>>

\* The except clause of run.
RunExcept ==
    /\ pc = "run_except"
    /\ result' = error_result(raised)
    /\ pc' = "returned"
    /\ UNCHANGED <<aside, env, supervisor_inst, routing_history, runs, entry, in_loop,
                   state, trace, branches, raised, llm_calls, remote_calls, last_route, call_log>>

Next ==
    \/ \E q \in Queries, e \in Entries, loop \in BOOLEAN : StartRun(q, e, loop)
    \/ ValidationAbort
    \/ SupervisorStep
    \/ Dispatch
    \/ StatsStep
    \/ MediaStep
    \/ BothBegin
    \/ \E b \in Stages : BranchBegin(b)
    \/ \E b \in Stages : BranchReturn(b)
    \/ JoinFinish
    \/ SynthesizeStep
    \/ RunReturn
    \/ RunExcept

Spec == Init /\ [][Next]_vars

\* Every step of a run is taken by the one thread that runs it, so a run
\* that can take a step does.
RunStep ==
    \/ ValidationAbort
    \/ SupervisorStep
    \/ Dispatch
    \/ StatsStep
    \/ MediaStep
    \/ BothBegin
    \/ \E b \in Stages : BranchBegin(b)
    \/ \E b \in Stages : BranchReturn(b)
    \/ JoinFinish
    \/ SynthesizeStep
    \/ RunReturn
    \/ RunExcept

\* Next with the number of runs capped at MaxLiveRuns.
StartLiveRun(q, e, loop) == StartRun(q, e, loop) /\ runs' <= MaxLiveRuns

LiveNext ==
    \/ \E q \in Queries, e \in Entries, loop \in BOOLEAN : StartLiveRun(q, e, loop)
    \/ ValidationAbort
    \/ SupervisorStep
    \/ Dispatch
    \/ StatsStep
    \/ MediaStep
    \/ BothBegin
    \/ \E b \in Stages : BranchBegin(b)
    \/ \E b \in Stages : BranchReturn(b)
    \/ JoinFinish
    \/ SynthesizeStep
    \/ RunReturn
    \/ RunExcept

FairSpec == Init /\ [][LiveNext]_vars /\ WF_vars(RunStep)

----------------------------------------------------------------------------
(* The parallel join with executors that may raise                         *)

\* stats_agent_node and media_agent_node catch every Exception themselves,
\* so in Spec no branch of the join raises.  JoinSpec runs
\* stats_and_media_node from the point where it awaits asyncio.gather with
\* executors that may also raise, which is the case the except clause of
\* the join (worker_agents.py:284-291) is written for.
ExecutorErrors ==
    [stats |-> <<"stats executor failed">>, media |-> <<"media executor failed">>]

\* Variant: the except clause of the join returns no error key.
stats_and_media_node_except_Unrecorded(msg) ==
    Update(TRUE, ErrorText(msg), TRUE, ErrorText(msg), FALSE, NoneVal)

\* The dict the except clause of stats_and_media_node returns for str(e).
stats_and_media_node_except(msg) ==
    Update(TRUE, ErrorText(msg), TRUE, ErrorText(msg), TRUE, Str(msg))

JoinInit ==
    /\ env \in [creds : BOOLEAN, stats_url : BOOLEAN, media_url : BOOLEAN]
    /\ AsideInit
    /\ supervisor_inst = TRUE
    /\ routing_history = <<>>
    /\ runs = 1
    /\ entry \in {"run", "create_workflow"}
    /\ in_loop = FALSE
    /\ pc = "both_running"
    /\ state = [AgentState("Who leads the league in scoring?")
                   EXCEPT !.next_node = "both"]
    /\ trace = <<"supervisor", "both_agents">>
    /\ branches = [b \in Stages |-> [IdleBranch EXCEPT !.st = "pending"]]
    /\ raised = <<>>
    /\ result = NoResult
    /\ llm_calls = 1
    /\ remote_calls = 0
    /\ last_route = NoRoute
    /\ call_log = [b \in Stages |-> NoCall]

\* The coroutine of branch b raises, when it starts or when it is resumed;
\* asyncio.gather hands the first exception of its children to the join
\* and lets the other child run on.
BranchRaise(b) ==
    /\ pc = "both_running"
    /\ branches[b].st \in {"pending", "awaiting"}
    /\ branches' = [branches EXCEPT ![b].st = "raised"]
    /\ raised' = IF raised = <<>> THEN ExecutorErrors[b] ELSE raised
    /\ UNCHANGED <<aside, env, supervisor_inst, routing_history, runs, entry, in_loop,
                   pc, state, trace, result, llm_calls, remote_calls,
                   last_route, call_log>>

\* The await of the join raises the exception; its except clause returns
\* the dict and the node merges it into the state.
JoinExcept ==
    /\ pc = "both_running"
    /\ raised # <<>>
    /\ LET u == stats_and_media_node_except(raised)
       IN  state' = IF IsMain(entry) THEN _both_agents_node(state, FALSE, u)
                    ELSE ApplyUpdate(state, u)
    /\ raised' = <<>>
    /\ pc' = "synthesize"
    /\ UNCHANGED <<aside, env, supervisor_inst, routing_history, runs, entry, in_loop,
                   trace, branches, result, llm_calls, remote_calls,
                   last_route, call_log>>

JoinNext ==
    \/ \E b \in Stages : BranchBegin(b)
    \/ \E b \in Stages : BranchReturn(b)
    \/ \E b \in Stages : BranchRaise(b)
    \/ JoinFinish
    \/ JoinExcept
    \/ ValidationAbort
    \/ SynthesizeStep
    \/ RunReturn
    \/ RunExcept

JoinSpec == JoinInit /\ [][JoinNext]_vars

----------------------------------------------------------------------------
(* synthesize_node applied again to the state it produced                  *)

Last(seq) == seq[Len(seq)]

Count(seq, x) == Cardinality({i \in DOMAIN seq : seq[i] = x})

\* No run applies synthesize_node twice: the graph has one edge into it and
\* one out of it to END.  ResynthSpec lets a caller apply the function
\* again to the state a run ended with, up to MaxApplications times in all.
MaxApplications == 2

SynthesizeAgain ==
    /\ pc = "END"
    /\ Count(trace, "synthesize") < MaxApplications
    /\ state' = synthesize_node(state)
    /\ trace' = Append(trace, "synthesize")
    /\ UNCHANGED <<aside, env, supervisor_inst, routing_history, runs, entry, in_loop,
                   pc, branches, raised, result, llm_calls, remote_calls,
                   last_route, call_log>>

ResynthNext ==
    \/ \E q \in Queries, e \in Entries, loop \in BOOLEAN : StartLiveRun(q, e, loop)
    \/ ValidationAbort
    \/ SupervisorStep
    \/ Dispatch
    \/ StatsStep
    \/ MediaStep
    \/ BothBegin
    \/ \E b \in Stages : BranchBegin(b)
    \/ \E b \in Stages : BranchReturn(b)
    \/ JoinFinish
    \/ SynthesizeStep
    \/ SynthesizeAgain
    \/ RunReturn
    \/ RunExcept

ResynthSpec == Init /\ [][ResynthNext]_vars

----------------------------------------------------------------------------
(* Claims *)

\* A run entered through run or invoke_workflow has handed back its record.
Returned == pc = "returned" /\ IsMain(entry) /\ result.returned

\* C1: whatever the decision service, the stage endpoints and the node
\* bodies do, no exception leaves run or invoke_workflow, and every such
\* call ends by returning a result record to its caller.
C1_RunAlwaysReturns ==
    /\ [](IsMain(entry) => pc # "raised")
    /\ (IsMain(entry) /\ pc = "supervisor") ~> Returned

\* C1 witness: an exception left graph.invoke and the call still returned.
C1_Witness == Returned /\ raised # <<>> /\ entry = "invoke_workflow"

\* C2: a finished run has executed synthesize, exactly once, after the
\* supervisor and after every stage node, as its last node.
C2_SynthesizeOnceAndLast ==
    Returned =>
        /\ Len(trace) >= 2
        /\ trace[1] = "supervisor"
        /\ Last(trace) = "synthesize"
        /\ Count(trace, "synthesize") = 1

\* C3: the status of the record run returns is 'completed' or 'error'.
C3_StatusCompletedOrError ==
    Returned => result.status \in {"completed", "error"}

\* C3 witness: a run in which a node failed has returned.
C3_Witness ==
    /\ Returned
    /\ raised = <<>>
    /\ result.status = "error"
    /\ Len(trace) = 3


FailurePrefixes ==
    {"Error parsing routing decision: ", "Error in routing decision: ",
     "Unexpected error during routing: "}

\* C4: when the decision service fails to deliver a usable decision, route
\* returns next_node = stats_agent, success = false and a reasoning made of
\* a failure prefix and the message of the failure.
C4_RouteFallsBack ==
    (last_route.called /\ last_route.failure) =>
        /\ last_route.returned.next_node = "stats_agent"
        /\ ~last_route.returned.success
        /\ IsStr(last_route.returned.supervisor_reasoning)
        /\ Len(last_route.returned.supervisor_reasoning.s) >= 3
        /\ Head(last_route.returned.supervisor_reasoning.s) \in FailurePrefixes

\* C4 witness: route has returned from a failed decision-service call.
C4_Witness ==
    /\ pc = "dispatch"
    /\ last_route.called
    /\ last_route.failure
    /\ state.next_node = "stats_agent"

HasStatsSection(report) == Contains(report.s, "## NBA Statistics")
HasMediaSection(report) == Contains(report.s, "## Media Recommendations")

\* C5: a run with an empty query makes no decision-service call, is routed
\* to synthesize, executes no stage node, and returns status 'completed'
\* with a report that has neither a stats nor a media section.
C5_EmptyQueryCompletes ==
    (Returned /\ state.user_message = "") =>
        /\ llm_calls = 0
        /\ trace = <<"supervisor", "synthesize">>
        /\ result.status = "completed"
        /\ ~HasStatsSection(result.final_report)
        /\ ~HasMediaSection(result.final_report)

NodeNamed(target) == IF target = "both" THEN "both_agents" ELSE target

NodeErrorStatus ==
    [supervisor |-> "supervisor_error", stats_agent |-> "stats_agent_error",
     media_agent |-> "media_agent_error", both_agents |-> "both_agents_error"]

NodeErrorStatuses == {NodeErrorStatus[n] : n \in DOMAIN NodeErrorStatus}

\* The body of the node about to run raises: get_supervisor() cannot build
\* the supervisor, or asyncio.run is called inside a running event loop.
BodyRaises ==
    /\ IsMain(entry)
    /\ AgentStateValid(state)
    /\ \/ pc = "supervisor" /\ ~(supervisor_inst \/ env.creds)
       \/ pc \in {"stats_agent", "media_agent", "both_agents"} /\ in_loop

\* C7: when the body of the supervisor node or of a stage node raises, the
\* node sets state.error and its '*_error' status; from then on the run is
\* not aborted and the next node to execute is synthesize.
C7_NodeErrorsRecovered ==
    [][/\ BodyRaises =>
            /\ Truthy(state'.error)
            /\ state'.status = NodeErrorStatus[pc]
            /\ pc' \in {"dispatch", "synthesize"}
       /\ state.status \in NodeErrorStatuses =>
            /\ pc' \notin {"run_except", "raised"}
            /\ trace' # trace => trace' = Append(trace, "synthesize")]_vars

\* C7 witness: a run whose stage node raised has gone through synthesize.
C7_Witness ==
    /\ Returned
    /\ in_loop
    /\ trace = <<"supervisor", "stats_agent", "synthesize">>
    /\ Truthy(result.error)

NodesOf(b) == IF b = "stats" THEN {"stats_agent", "both_agents"}
              ELSE {"media_agent", "both_agents"}

\* The executor of stage b has run and its node has finished.
StageRan(b) ==
    /\ pc \in {"synthesize", "END", "returned", "run_except"}
    /\ ~in_loop
    /\ \E i \in DOMAIN trace : trace[i] \in NodesOf(b)

RanAlone == "both_agents" \notin {trace[i] : i \in DOMAIN trace}

Response(b) == IF b = "stats" THEN state.stats_agent_response
               ELSE state.media_agent_response

FallbackText(b) == IF b = "stats" THEN StatsFallbackText ELSE MediaFallbackText

\* The request of stage b came back with nothing usable.
CallFailed(b) == call_log[b].made /\ ~Truthy(call_log[b].returned)

Aborted == pc \in {"run_except", "raised"} \/ raised # <<>>

C9_UnconfiguredIsMarkedMock ==
    \A b \in Stages :
        (StageRan(b) /\ ~Configured(b)) =>
            /\ ~call_log[b].made
            /\ HasMockMarker(Response(b))
            /\ ~Truthy(state.error)
            /\ state.next_node = "synthesize"

\* The body of stage b raised: len() of the value its request returned.
StageBodyRaised(b) ==
    /\ call_log[b].made
    /\ Truthy(call_log[b].returned)
    /\ ~HasLen(call_log[b].returned)

\* C10: when the body of a stage raises, alone or as a branch of the join,
\* state.error is set, so the run returns success = false, and a run in
\* which the stage ran alone is not aborted.
C10_StageFailureRecorded ==
    \A b \in Stages :
        (StageRan(b) /\ StageBodyRaised(b)) =>
            /\ Truthy(state.error)
            /\ Returned => ~result.success
            /\ RanAlone => ~Aborted

\* Branch b took its internal failure path: its request failed and it fell
\* back, or its body raised and its own except clause answered.
BranchFailed(b) == CallFailed(b) \/ StageBodyRaised(b)

\* C11: stats_and_media_node returns only when both executors are done, in
\* whatever order they finish and whether or not one of them has failed;
\* it then hands over the responses of both.
C11_JoinWaitsForBoth ==
    [][(pc = "both_running" /\ pc' # "both_running") =>
            /\ \A b \in Stages : branches[b].st = "done"
            /\ pc' = "synthesize"
            /\ state'.stats_agent_response =
                   branches["stats"].update.stats_agent_response
            /\ state'.media_agent_response =
                   branches["media"].update.media_agent_response]_vars

\* C11 witness: the stats branch has failed and is done while the media
\* branch still awaits its reply.
C11_Witness ==
    /\ pc = "both_running"
    /\ branches["stats"].st = "done"
    /\ BranchFailed("stats")
    /\ branches["media"].st = "awaiting"

\* C12: when an executor raises inside the join, the join leaves only
\* through its except clause: both responses become the error-annotated
\* text of that exception, error is set, the next node is synthesize, and
\* nothing is left raised.
C12_JoinCatchesExecutorError ==
    [][(pc = "both_running" /\ raised # <<>>) =>
            \/ pc' = "both_running" /\ raised' = raised
            \/ /\ pc' = "synthesize"
               /\ raised' = <<>>
               /\ state'.stats_agent_response = ErrorText(raised)
               /\ state'.media_agent_response = ErrorText(raised)
               /\ state'.error = Str(raised)
               /\ state'.next_node = "synthesize"]_vars

\* C12 witness: the media executor raised while the stats executor
\* returned, and the join has handed both responses over as error text.
C12_Witness ==
    /\ pc = "synthesize"
    /\ branches["stats"].st = "done"
    /\ branches["media"].st = "raised"
    /\ state.error = Str(ExecutorErrors["media"])
    /\ state.stats_agent_response = ErrorText(ExecutorErrors["media"])
    /\ state.media_agent_response = ErrorText(ExecutorErrors["media"])

\* C13: every record invoke_workflow returns has the keys success, status,
\* progress, final_report, agents_used and error (the first four and error
\* are in every record run builds), and a record that reports a failure
\* has success = false and a non-empty error or final_report.
C13_ResultWellFormed ==
    (Returned /\ entry = "invoke_workflow") =>
        /\ result.has_agents_used
        /\ result.status # "completed" =>
               /\ ~result.success
               /\ Truthy(result.error) \/ Truthy(result.final_report)

\* C14: in every record run returns, success is true exactly when error is
\* unset.
C14_SuccessIffNoError ==
    Returned => (result.success <=> result.error = NoneVal)

\* C14 witness: a run whose supervisor node failed went through synthesize
\* and returned success = false with the error of the supervisor.
C14_Witness ==
    /\ Returned
    /\ trace = <<"supervisor", "synthesize">>
    /\ ~result.success
    /\ Truthy(result.error)

\* A run is under way: a node, the join or the return of the graph is next.
InRun == pc \in NodePcs \cup {"both_running", "END"}

\* C15: within a run progress stays an integer in 0..100, no step of the
\* run lowers it, error paths included, and it is 100 once synthesize has
\* run.
C15_ProgressMonotone ==
    [][InRun =>
            /\ state'.progress \in 0..100
            /\ state'.progress >= state.progress
            /\ (trace' # <<>> /\ Last(trace') = "synthesize") =>
                   state'.progress = 100]_vars

\* The stage names the nodes of a trace stand for, in order.
RECURSIVE StagesOf(_)
StagesOf(tr) ==
    IF tr = <<>> THEN <<>>
    ELSE (CASE Head(tr) = "stats_agent" -> <<"stats_agent">>
            [] Head(tr) = "media_agent" -> <<"media_agent">>
            [] Head(tr) = "both_agents" -> <<"stats_agent", "media_agent">>
            [] OTHER -> <<>>)
         \o StagesOf(Tail(tr))

IsPrefix(s, t) == Len(s) <= Len(t) /\ SubSeq(t, 1, Len(s)) = s

\* C16: in a run of the main graph agent_history only grows at its end,
\* and when the graph finishes it lists the stages of the nodes that ran, in
\* order: one name for the stats or the media node, both names for the
\* join, nothing when the supervisor routed straight to synthesize.
C16_HistoryListsStagesRun ==
    [][(IsMain(entry) /\ InRun) =>
            /\ IsPrefix(state.agent_history, state'.agent_history)
            /\ pc' = "END" => state'.agent_history = StagesOf(trace')]_vars

\* C17: once state.error is set, no later step of the run, synthesize
\* included, unsets it or replaces its message.  (No run enters the except
\* clause of synthesize_node, the one place that would replace it.)
C17_FirstErrorKept ==
    [][(InRun /\ Truthy(state.error)) => state'.error = state.error]_vars

\* C17 witness: the stats node set an error and synthesize ran after it.
C17_Witness ==
    /\ pc = "END"
    /\ trace = <<"supervisor", "stats_agent", "synthesize">>
    /\ state.error = Str(<<"Stats agent error: ">> \o AsyncioRunError)

\* The status values synthesize_node leaves.
SynthesizedStatuses == {"completed", "error", "synthesis_error"}

\* C18: state.final_report is empty as long as synthesize has not run, the
\* one step of a run that changes it is that of synthesize_node, which
\* finds it empty, and it is non-empty exactly when the status is one that
\* synthesize_node leaves.
C18_ReportWrittenOnceBySynthesize ==
    [][InRun =>
            /\ state'.final_report # state.final_report =>
                   /\ pc = "synthesize" /\ pc' = "END"
                   /\ state.final_report = EmptyStr
            /\ "synthesize" \notin {trace'[i] : i \in DOMAIN trace'} =>
                   state'.final_report = EmptyStr
            /\ Truthy(state'.final_report) <=>
                   state'.status \in SynthesizedStatuses]_vars

\* C18 witness: synthesize has written the report of a run that failed.
C18_Witness ==
    /\ pc = "END"
    /\ Last(trace) = "synthesize"
    /\ Truthy(state.final_report)
    /\ state.status = "error"

\* C19: applying synthesize_node again to the state a first application
\* left yields the same final_report.
C19_SynthesizeIdempotent ==
    [][(pc = "END" /\ trace' # trace) =>
            state'.final_report = state.final_report]_vars

\* C19 witness: synthesize_node has been applied twice to the state of a
\* run in which the stats stage ran.
C19_Witness ==
    /\ pc = "END"
    /\ trace = <<"supervisor", "stats_agent", "synthesize", "synthesize">>
    /\ Truthy(state.stats_agent_response)
    /\ Truthy(state.final_report)

\* The decision-service call itself failed: the invocation raised or gave
\* no text, and route answered from its last except clause.
RoutingCallFailed ==
    /\ last_route.called
    /\ last_route.failure
    /\ Head(last_route.returned.supervisor_reasoning.s) =
           "Unexpected error during routing: "

\* The stats stage failed: its node raised, or what its request returned is
\* no text (its body raises on a number and hands on anything else as the
\* response).
StatsStageFailed ==
    \/ in_loop
    \/ /\ call_log["stats"].made
       /\ Truthy(call_log["stats"].returned)
       /\ ~IsStr(call_log["stats"].returned)

\* C20: after a failed decision-service call the supervisor node leaves
\* next_node = stats_agent, the diagnostic reasoning of route and no error;
\* the stats node is the next to run, and unless the stage fails the run
\* returns status 'completed' with error unset.
C20_RoutingFailureStillCompletes ==
    (IsMain(entry) /\ RoutingCallFailed) =>
        /\ state.supervisor_reasoning = last_route.returned.supervisor_reasoning
        /\ pc = "dispatch" => state.next_node = "stats_agent" /\ state.error = NoneVal
        /\ Len(trace) >= 2 => trace[2] = "stats_agent"
        /\ (Returned /\ ~StatsStageFailed) =>
               /\ result.status = "completed"
               /\ result.error = NoneVal

\* C20 witness: a run whose decision-service call failed went through the
\* stats stage and returned status 'completed'.
C20_Witness ==
    /\ Returned
    /\ RoutingCallFailed
    /\ ~StatsStageFailed
    /\ trace = <<"supervisor", "stats_agent", "synthesize">>
    /\ result.status = "completed"

Listed(stage) == \E i \in DOMAIN state.agent_history : state.agent_history[i] = stage

\* C23: in every state of a run of the main graph a stage whose response
\* field is non-empty is listed in agent_history, on the error paths of the
\* stage nodes as on their success paths.
C23_OutputImpliesHistory ==
    (IsMain(entry) /\ (InRun \/ pc = "returned")) =>
        /\ Truthy(state.stats_agent_response) => Listed("stats_agent")
        /\ Truthy(state.media_agent_response) => Listed("media_agent")

\* The headings of the report in the order synthesize_node appends them.
SectionOrder ==
    <<"# Multi-Agent NBA Analytics Report", "## Query", "## Workflow Summary",
      "## Error", "## NBA Statistics", "## Media Recommendations",
      "## Key Insights">>

IsHeading(tok) == \E i \in DOMAIN SectionOrder : SectionOrder[i] = tok

Rank(tok) == CHOOSE i \in DOMAIN SectionOrder : SectionOrder[i] = tok

\* The headings of a report, in the order they appear in it.
Headings(report) == SelectSeq(report.s, IsHeading)

Increasing(hs) == \A i, j \in DOMAIN hs : i < j => Rank(hs[i]) < Rank(hs[j])

\* The node of stage b, alone or as the join, has run.
NodeRan(b) == \E i \in DOMAIN trace : trace[i] \in NodesOf(b)

\* C24: the report synthesize_node writes has the stats section exactly
\* when the stats stage ran in the run and the media section exactly when
\* the media stage ran, and its sections come in the order header, query,
\* workflow summary, error, stats, media, insights.
C24_ReportSections ==
    pc = "END" =>
        /\ HasStatsSection(state.final_report) <=> NodeRan("stats")
        /\ HasMediaSection(state.final_report) <=> NodeRan("media")
        /\ Increasing(Headings(state.final_report))
        /\ SubSeq(Headings(state.final_report), 1, 3) = SubSeq(SectionOrder, 1, 3)

\* C24 witness: the report of a run through the join whose node failed has
\* the error block and both sections.
C24_Witness ==
    /\ pc = "END"
    /\ Headings(state.final_report) = SubSeq(SectionOrder, 1, 6)

\* C25: in a run of the main graph no node after the supervisor node changes
\* the routing decision (next_node and supervisor_reasoning), and the
\* dispatch conditional reads it once: it is entered from the supervisor
\* node only and left at once.
C25_DecisionImmutable ==
    [][IsMain(entry) =>
          /\ (pc \in (NodePcs \cup {"both_running"}) \ {"supervisor"}) =>
                /\ state'.next_node = state.next_node
                /\ state'.supervisor_reasoning = state.supervisor_reasoning
          /\ pc' = "dispatch" => pc = "supervisor"
          /\ pc = "dispatch" => pc' # "dispatch"]_vars

\* C26: every call of route appends exactly one entry to the routing
\* history, whether it returns the decision of the service or the fallback
\* decision, so the history grows by one with every call.
C26_RouteAppendsOneEntry ==
    [][llm_calls' = llm_calls + 1 =>
          /\ Len(routing_history') = Len(routing_history) + 1
          /\ Last(routing_history').query = state.user_message
          /\ Last(routing_history').decision = state'.next_node]_vars

\* The phase of a status value: 0 the initial value, 1 the values of the
\* supervisor node, 2 those of the stage nodes, 3 those of synthesize_node.
Phase(status) ==
    IF status = "initialized" THEN 0
    ELSE IF status \in {"supervisor_complete", "supervisor_error"} THEN 1
    ELSE IF status \in {"stats_agent_complete", "stats_agent_error",
                        "media_agent_complete", "media_agent_error",
                        "both_agents_complete", "both_agents_error"} THEN 2
    ELSE 3

\* C27: within a run of the main graph status moves forward through the
\* phases only: each node leaves it in the phase of that node, and no step
\* of the run takes it to a value of an earlier phase.
C27_StatusMovesForward ==
    [][(IsMain(entry) /\ runs' = runs) =>
          /\ Phase(state'.status) >= Phase(state.status)
          /\ pc' = "dispatch" => Phase(state'.status) = 1
          /\ (pc \in {"stats_agent", "media_agent", "both_running"}
                /\ pc' = "synthesize") => Phase(state'.status) = 2
          /\ pc' = "END" => Phase(state'.status) = 3]_vars

\* C27 witness: a run whose stage node failed has reached the terminal
\* status through supervisor_complete and stats_agent_error.
C27_Witness ==
    /\ pc = "END" /\ IsMain(entry)
    /\ state.status = "error"
    /\ NodeRan("stats") /\ ~Listed("stats_agent")

\* C29: a call of call_elastic_agent_a2a issues one request at most and
\* none after a failure, so a run has issued at most one request for each
\* stage that executed (two in the join) and none when no stage executed.
C29_OneRequestPerStage ==
    /\ remote_calls = Cardinality({b \in Stages : call_log[b].made})
    /\ \A b \in Stages : call_log[b].made => NodeRan(b)
    /\ (~NodeRan("stats") /\ ~NodeRan("media")) => remote_calls = 0

\* C29 witness: a run through the join whose stats request failed ends
\* with two requests issued.
C29_Witness ==
    /\ pc = "END"
    /\ remote_calls = 2
    /\ call_log["stats"].returned = NoneVal

\* C30: the stats node, on its success path and on its error path, leaves
\* media_agent_response as it was, which is empty; the media node does the
\* same for stats_agent_response; and no stage node, the join included,
\* changes user_message or final_report.
C30_StageWritesOwnOutput ==
    [][pc' = "synthesize" =>
          /\ pc = "stats_agent" =>
                /\ state'.media_agent_response = state.media_agent_response
                /\ state.media_agent_response = EmptyStr
          /\ pc = "media_agent" =>
                /\ state'.stats_agent_response = state.stats_agent_response
                /\ state.stats_agent_response = EmptyStr
          /\ pc \in {"stats_agent", "media_agent", "both_agents", "both_running"} =>
                /\ state'.user_message = state.user_message
                /\ state'.final_report = state.final_report]_vars

\* C30 witness: the stats node has taken its error path in a run routed to
\* it alone.
C30_Witness ==
    /\ pc = "synthesize" /\ IsMain(entry)
    /\ Last(trace) = "stats_agent"
    /\ state.status = "stats_agent_error"
    /\ state.media_agent_response = EmptyStr

----------------------------------------------------------------------------
(* The stage executors called on their own                                 *)

\* ClientSpec awaits stats_agent_node and media_agent_node directly, any
\* number of times, with both URLs configured, and keeps what each request
\* came back with beside what call_elastic_agent_a2a returned for it.
ClientInit ==
    /\ env \in [creds : BOOLEAN, stats_url : {TRUE}, media_url : {TRUE}]
    /\ supervisor_inst = FALSE
    /\ routing_history = <<>>
    /\ runs = 0
    /\ entry = "run"
    /\ in_loop = FALSE
    /\ pc = "idle"
    /\ state = AgentState("Who leads the league in scoring?")
    /\ trace = <<>>
    /\ branches = [b \in Stages |-> IdleBranch]
    /\ raised = <<>>
    /\ result = NoResult
    /\ llm_calls = 0
    /\ remote_calls = 0
    /\ last_route = NoRoute
    /\ call_log = [b \in Stages |-> NoCall]
    /\ AsideInit

ClientCall(b) ==
    /\ \E outcome \in RemoteOutcomes :
        /\ reply' = [reply EXCEPT ![b] = outcome]
        /\ call_log' = [call_log EXCEPT ![b] =
                           [made |-> TRUE,
                            returned |-> call_elastic_agent_a2a(outcome)]]
        /\ branches' = [branches EXCEPT ![b] =
                           [st |-> "done",
                            update |-> StageNode(b, Configured(b), outcome)]]
    /\ UNCHANGED <<env, supervisor_inst, routing_history, runs, entry, in_loop,
                   pc, state, trace, raised, result, llm_calls, remote_calls,
                   last_route, thread_id, checkpoints, _workflow_instance,
                   _supervisor_instance, threads, heap>>

ClientNext == \E b \in Stages : ClientCall(b)

ClientSpec == ClientInit /\ [][ClientNext]_vars

\* What one alternate field yields, NoneVal for nothing (lines 112-122).
FieldText(value) == FirstFieldText([n \in {"f"} |-> value], <<"f">>)

\* What each rule yields for the result of a reply, in the order of the
\* rules: result.parts, the plain string result, the six alternate fields,
\* the artifacts; NoneVal where a rule yields nothing.  A text-kind segment
\* yields its text when it is truthy, a field or an artifact entry yields a
\* str that is not blank.
RuleYields(res) ==
    << IF res.type = "dict" THEN FirstPartText(res.parts) ELSE NoneVal,
       IF res.type = "str" THEN res.str ELSE NoneVal >>
    \o [i \in DOMAIN field_names |->
           IF res.type = "dict" THEN FieldText(res.fields[field_names[i]])
           ELSE NoneVal]
    \o << IF res.type = "dict" THEN ArtifactsText(res.artifacts) ELSE NoneVal >>

\* C28: for a reply that arrived and has no error set,
\* call_elastic_agent_a2a returns what the first rule that yields anything
\* yields, in the order parts, string result, response, content, data, text,
\* message, output, artifacts; with an error set, with no result or with no
\* rule yielding text it returns no text, and then the stage returns its
\* mock text and no error key.
C28_FirstMatchingRuleWins ==
    \A b \in Stages :
        (call_log[b].made /\ reply[b].kind = "ok") =>
            LET data == reply[b].data
                returned == call_log[b].returned
                yields == RuleYields(data.result)
                matching == {i \in DOMAIN yields : yields[i] # NoneVal}
            IN  /\ (data.error # "set" /\ data.has_result /\ matching # {}) =>
                       \E i \in matching :
                           /\ \A j \in matching : i <= j
                           /\ returned = yields[i]
                /\ (data.error = "set" \/ ~data.has_result \/ matching = {}) =>
                       returned = NoneVal
                /\ ~Truthy(returned) =>
                       LET u == branches[b].update
                       IN  /\ b = "stats" => u.stats_agent_response = FallbackText(b)
                           /\ b = "media" => u.media_agent_response = FallbackText(b)
                           /\ ~u.has_error

\* C28 witness: a reply with text in result.parts, in an alternate field and
\* in the artifacts gave the text of result.parts, and a reply with an error
\* set gave none.
C28_Witness ==
    /\ reply["stats"].kind = "ok" /\ reply["media"].kind = "ok"
    /\ reply["stats"].data.error # "set"
    /\ RuleYields(reply["stats"].data.result)[1] = LiveText
    /\ RuleYields(reply["stats"].data.result)[8] = OtherText
    /\ call_log["stats"].returned = LiveText
    /\ reply["media"].data.error = "set"
    /\ call_log["media"].returned = NoneVal

----------------------------------------------------------------------------
(* Runs with a thread_id on the checkpointer of the workflow               *)

\* MultiAgentWorkflow.run, lines 248-253: the AgentState it builds, with
\* user_message, messages, status and progress set and error left None.
initial_state(query) ==
    [AgentState(query) EXCEPT !.messages = <<"human">>,
                              !.status = "initialized",
                              !.progress = 10]

\* The channel values the graph starts from when compiled_graph.invoke
\* writes input over what the saver holds for the thread_id (lines 256-265).
\* A field of the input that is None and was not set by the caller is
\* written by some versions of the engine and skipped by others; the
\* project pins none, so writes_none is either.
InputWrite(checkpoint, input, writes_none) ==
    IF ~checkpoint.saved THEN input
    ELSE [f \in DOMAIN input |->
             IF f = "error" /\ input[f] = NoneVal /\ ~writes_none
             THEN checkpoint.values[f]
             ELSE input[f]]

\* run(query, thread_id) up to the START -> supervisor edge.
StartThreadRun(q, tid, loop, writes_none) ==
    /\ pc \in {"idle", "returned"}
    /\ runs < MaxRuns
    /\ runs' = runs + 1
    /\ entry' = "run"
    /\ in_loop' = loop
    /\ thread_id' = tid
    /\ state' = InputWrite(IF tid = "" THEN NoCheckpoint ELSE checkpoints[tid],
                           initial_state(q), writes_none)
    /\ pc' = "supervisor"
    /\ trace' = <<>>
    /\ branches' = [b \in Stages |-> IdleBranch]
    /\ raised' = <<>>
    /\ result' = NoResult
    /\ llm_calls' = 0
    /\ remote_calls' = 0
    /\ last_route' = NoRoute
    /\ call_log' = [b \in Stages |-> NoCall]
    /\ UNCHANGED <<env, supervisor_inst, routing_history, reply, checkpoints,
                   _workflow_instance, _supervisor_instance, threads, heap>>

\* What the saver holds for the thread_id of the run when run returns: the
\* channel values after the last node that completed.
Saved(st) ==
    IF thread_id = "" THEN checkpoints
    ELSE [checkpoints EXCEPT ![thread_id] = [saved |-> TRUE, values |-> st]]

\* graph.invoke returns and run builds its record.
ThreadRunReturn ==
    /\ pc = "END"
    /\ result' = run_result(state)
    /\ checkpoints' = Saved(state)
    /\ pc' = "returned"
    /\ UNCHANGED <<env, supervisor_inst, routing_history, runs, entry, in_loop,
                   state, trace, branches, raised, llm_calls, remote_calls,
                   last_route, call_log, reply, thread_id, _workflow_instance,
                   _supervisor_instance, threads, heap>>

\* The except clause of run.
ThreadRunExcept ==
    /\ pc = "run_except"
    /\ result' = error_result(raised)
    /\ checkpoints' = Saved(state)
    /\ pc' = "returned"
    /\ UNCHANGED <<env, supervisor_inst, routing_history, runs, entry, in_loop,
                   state, trace, branches, raised, llm_calls, remote_calls,
                   last_route, call_log, reply, thread_id, _workflow_instance,
                   _supervisor_instance, threads, heap>>

ThreadNext ==
    \/ \E q \in Queries, tid \in ThreadIds \cup {""}, loop \in BOOLEAN,
          writes_none \in BOOLEAN : StartThreadRun(q, tid, loop, writes_none)
    \/ ValidationAbort
    \/ SupervisorStep
    \/ Dispatch
    \/ StatsStep
    \/ MediaStep
    \/ BothBegin
    \/ \E b \in Stages : BranchBegin(b)
    \/ \E b \in Stages : BranchReturn(b)
    \/ JoinFinish
    \/ SynthesizeStep
    \/ ThreadRunReturn
    \/ ThreadRunExcept

ThreadSpec == Init /\ [][ThreadNext]_vars

\* C22: a run starts from the state run() built for it, which holds its
\* query and nothing of a run before it, an earlier run with the same
\* thread_id on the same checkpointer included: the supervisor node
\* receives user_message, the one message, status initialized, progress 10,
\* and every other field empty, error among them.
C22_RunStartsFresh ==
    (pc = "supervisor" /\ IsMain(entry)) =>
        state = initial_state(state.user_message)

----------------------------------------------------------------------------
(* invoke_workflow called from executor threads at the same time           *)

\* api_server.get_workflow_response hands invoke_workflow to the default
\* executor, so calls run in threads of one process and may interleave
\* between any two statements.  RaceSpec follows each thread through
\* get_workflow, get_supervisor, the append of route and the checkpoint
\* the run writes; instances are numbered in the order they are made.
SetThread(t, position, field, value) ==
    threads' = [threads EXCEPT ![t] = [@ EXCEPT !.pc = position, ![field] = value]]

RaceRest ==
    <<env, routing_history, runs, entry, in_loop, pc, state, trace, branches,
      raised, result, llm_calls, remote_calls, last_route, call_log, reply,
      thread_id, checkpoints>>

\* A request arrives and its thread enters invoke_workflow.
Invoke(t) ==
    /\ threads[t].pc = "idle"
    /\ SetThread(t, "workflow_check", "appended", FALSE)
    /\ UNCHANGED <<RaceRest, supervisor_inst, _workflow_instance,
                   _supervisor_instance, heap>>

\* get_workflow, statement by statement: the test of the global, the
\* construction of a MultiAgentWorkflow with its own InMemorySaver, the
\* assignment to the global, and the return of what the global holds then.
get_workflow(t) ==
    /\ \/ /\ threads[t].pc = "workflow_check"
          /\ SetThread(t, IF _workflow_instance = 0 THEN "workflow_make"
                          ELSE "workflow_return", "workflow", 0)
          /\ UNCHANGED <<_workflow_instance, heap>>
       \/ /\ threads[t].pc = "workflow_make"
          /\ heap' = [heap EXCEPT !.workflows = @ + 1]
          /\ SetThread(t, "workflow_assign", "workflow", heap.workflows + 1)
          /\ UNCHANGED _workflow_instance
       \/ /\ threads[t].pc = "workflow_assign"
          /\ _workflow_instance' = threads[t].workflow
          /\ SetThread(t, "workflow_return", "workflow", 0)
          /\ UNCHANGED heap
       \/ /\ threads[t].pc = "workflow_return"
          /\ SetThread(t, "supervisor_check", "workflow", _workflow_instance)
          /\ UNCHANGED <<_workflow_instance, heap>>
    /\ UNCHANGED <<RaceRest, supervisor_inst, _supervisor_instance>>

\* get_supervisor, called by supervisor_node of the run: the same four
\* statements.  SupervisorAgent() raises without credentials, which
\* supervisor_node catches, and the run goes on without a route call.
get_supervisor(t) ==
    /\ \/ /\ threads[t].pc = "supervisor_check"
          /\ SetThread(t, IF _supervisor_instance = 0 THEN "supervisor_make"
                          ELSE "supervisor_return", "supervisor", 0)
          /\ UNCHANGED <<_supervisor_instance, supervisor_inst, heap>>
       \/ /\ threads[t].pc = "supervisor_make"
          /\ heap' = IF env.creds THEN [heap EXCEPT !.supervisors = @ + 1]
                     ELSE heap
          /\ IF env.creds
             THEN SetThread(t, "supervisor_assign", "supervisor",
                            heap.supervisors + 1)
             ELSE SetThread(t, "checkpoint", "supervisor", 0)
          /\ UNCHANGED <<_supervisor_instance, supervisor_inst>>
       \/ /\ threads[t].pc = "supervisor_assign"
          /\ _supervisor_instance' = threads[t].supervisor
          /\ supervisor_inst' = TRUE
          /\ SetThread(t, "supervisor_return", "supervisor", 0)
          /\ UNCHANGED heap
       \/ /\ threads[t].pc = "supervisor_return"
          /\ SetThread(t, "route", "supervisor", _supervisor_instance)
          /\ UNCHANGED <<_supervisor_instance, supervisor_inst, heap>>
    /\ UNCHANGED <<RaceRest, _workflow_instance>>

\* route on the instance the thread got: it appends its entry when the
\* decision service gave a decision, and nothing when it falls back.
RouteCall(t) ==
    /\ threads[t].pc = "route"
    /\ \E decided \in BOOLEAN :
        /\ SetThread(t, "checkpoint", "appended", decided)
        /\ heap' = IF decided
                   THEN [heap EXCEPT !.routing_history[threads[t].supervisor] =
                                         Append(@, t)]
                   ELSE heap
    /\ UNCHANGED <<RaceRest, supervisor_inst, _workflow_instance,
                   _supervisor_instance>>

\* The run writes its checkpoint, under the uuid4 it drew, to the saver of
\* the workflow the thread got, and invoke_workflow returns.
Checkpoint(t) ==
    /\ threads[t].pc = "checkpoint"
    /\ heap' = [heap EXCEPT !.saver[threads[t].workflow] = @ \cup {t}]
    /\ SetThread(t, "done", "appended", threads[t].appended)
    /\ UNCHANGED <<RaceRest, supervisor_inst, _workflow_instance,
                   _supervisor_instance>>

RaceNext ==
    \/ \E t \in Threads : Invoke(t)
    \/ \E t \in Threads : get_workflow(t)
    \/ \E t \in Threads : get_supervisor(t)
    \/ \E t \in Threads : RouteCall(t)
    \/ \E t \in Threads : Checkpoint(t)

RaceSpec == Init /\ [][RaceNext]_vars

\* C21: with invoke_workflow running in several executor threads, the
\* calls that create the two singletons among them, what a finished run
\* wrote is in the shared store: its checkpoint in the saver of the
\* workflow the global names, and its routing-history entry, when route
\* appended one, in the history of the supervisor the global names.
C21_WritesStayShared ==
    \A t \in Threads :
        threads[t].pc = "done" =>
            /\ t \in heap.saver[_workflow_instance]
            /\ threads[t].appended =>
                   \E i \in DOMAIN heap.routing_history[_supervisor_instance] :
                       heap.routing_history[_supervisor_instance][i] = t

====
